---- MODULE Spec2Model ----
(***************************************************************************)
(* Model of the client REST API of middleware_logging: the file-backed     *)
(* UserRepository, the zod body validation, the seven routes and the       *)
(* global error middleware.  A handler runs atomically up to its first     *)
(* real I/O wait (fs.writeFile in saveToFile, fs.readFile in init, the     *)
(* cep() lookup); awaits of already-computed values only take microtask    *)
(* ticks and cannot be interleaved with another request.  fs.writeFile is   *)
(* taken to succeed; request bodies are JSON objects whose id, when a      *)
(* client sends one, is a number.                                          *)
(***************************************************************************)
EXTENDS Integers, Sequences, FiniteSets, TLC

\* ----------------------------------------------------------------- bounds
\* Number of POST, PUT and DELETE requests with an accepted body in one run.
MaxWrites == 2
\* Number of other requests (GETs, rejected bodies) in one run.
MaxReads == 1
\* Largest id a request names in its path or body.
MaxId == 3

\* Request slots: the requests that may be in flight at the same time.
Slots == {1, 2}
Ids == 1..MaxId

VARIABLES
  users,    \* UserRepository.users
  file,     \* content of users.json
  initPc,   \* position of the init() call started at module load
  writes,   \* fs.writeFile calls in flight, by owner
  pc,       \* position of the handler of each request slot
  req,      \* the request a suspended handler is serving
  local,    \* the handler's local variable that survives its await
  resp,     \* the response the last step sent, with its slot and request
  nreq,     \* history: requests received, by kind, and before init was done
  deleted,  \* history: ids of the records removed by delete
  hist,     \* history: records init left, creates and deletes since, merges
  ev        \* history: what the last step did

vars == <<users, file, initPc, writes, pc, req, local, resp, nreq, deleted, hist, ev>>

\* ------------------------------------------------------------------ values
None == <<>>

SchemaKeys == {"name", "email", "cpf", "cep", "rg"}
RequiredKeys == {"name", "email", "cpf", "cep"}
KeyOrder == <<"id", "email", "name", "cpf", "rg", "cep">>

\* Strings accepted by zod's email check and by validation-br's isCPF.
EmailShaped == {"felipe@example.com", "maria@example.com", "andre@example.com", "ana@example.com"}
ValidCpfs == {"52998224725", "11144477735", "39053344705", "98765432100"}

isCPF(s) == s \in ValidCpfs

Seed ==
  << [id |-> 1, email |-> "felipe@example.com", name |-> "Felipe", cpf |-> "11144477735", rg |-> "111111111", cep |-> "11111111"],
     [id |-> 2, email |-> "maria@example.com", name |-> "Maria", cpf |-> "39053344705", rg |-> "222222222", cep |-> "22222222"],
     [id |-> 3, email |-> "andre@example.com", name |-> "Andre", cpf |-> "98765432100", rg |-> "333333333", cep |-> "33333333"] >>

\* ------------------------------------------------------ JSON persistence
RECURSIVE SerializeKeys(_, _)
SerializeKeys(r, i) ==
  IF i > Len(KeyOrder) THEN <<>>
  ELSE IF KeyOrder[i] \in DOMAIN r
       THEN <<<<KeyOrder[i], r[KeyOrder[i]]>>>> \o SerializeKeys(r, i + 1)
       ELSE SerializeKeys(r, i + 1)

\* JSON.stringify(this.users, null, 2): an array of objects, each a list of
\* "key": value members.
Stringify(us) == [i \in 1..Len(us) |-> SerializeKeys(us[i], 1)]

ParseObject(members) ==
  [k \in {members[j][1] : j \in 1..Len(members)} |->
     LET j == CHOOSE j \in 1..Len(members) : members[j][1] = k IN members[j][2]]

\* JSON.parse(data) as IClient[]
Parse(text) == [i \in 1..Len(text) |-> ParseObject(text[i])]

Missing == [kind |-> "missing", text |-> <<>>]
Corrupt == [kind |-> "corrupt", text |-> <<>>]
Json(us) == [kind |-> "json", text |-> Stringify(us)]


\* ------------------------------------------------------------- zod schemas
FieldOk(k, v) ==
  CASE k = "name" -> Len(v) >= 3
    [] k = "email" -> v \in EmailShaped
    [] k = "cpf" -> isCPF(v)
    [] k = "cep" -> Len(v) = 8
    [] OTHER -> TRUE

\* Fields of body that createUserSchema.parse rejects.  Keys the schema does
\* not declare (such as id) are not an error.
createUserSchema(body) ==
  {k \in SchemaKeys : IF k \in DOMAIN body THEN ~FieldOk(k, body[k]) ELSE k \in RequiredKeys}

\* createUserSchema.partial(): every field optional.
updateUserSchema(body) ==
  {k \in SchemaKeys : k \in DOMAIN body /\ ~FieldOk(k, body[k])}

Schema(op, body) == IF op = "post" THEN createUserSchema(body) ELSE updateUserSchema(body)

\* ---------------------------------------------------------- error handling
AppError(message, statusCode) ==
  [isAppError |-> TRUE, message |-> message, statusCode |-> statusCode]

\* The rejection of the cep-promise lookup: not an AppError.
CepError == [isAppError |-> FALSE, message |-> "CEP NOT FOUND", statusCode |-> 0]

NotFound == AppError("Usuario nao encontrado", 404)

errorMiddleware(err) ==
  IF err.isAppError
  THEN [status |-> err.statusCode, body |-> [status |-> "error", message |-> err.message]]
  ELSE [status |-> 500, body |-> [status |-> "error", message |-> "Internal Server Error"]]

Ok(status, body) == [status |-> status, body |-> body]

\* ------------------------------------------------------------- repository
\* users.findIndex(u => u.id === id); 0 stands for -1 (sequences start at 1).
findIndex(us, id) ==
  IF \E i \in 1..Len(us) : us[i].id = id
  THEN CHOOSE i \in 1..Len(us) : us[i].id = id /\ \A j \in 1..(i - 1) : us[j].id # id
  ELSE 0

\* users.find(u => u.id === id); None stands for undefined.
getById(us, id) == IF findIndex(us, id) = 0 THEN None ELSE us[findIndex(us, id)]

\* { ...a, ...b }
Spread(a, b) == [k \in DOMAIN a \cup DOMAIN b |-> IF k \in DOMAIN b THEN b[k] ELSE a[k]]

\* (this.users.slice(-1)[0]?.id) ?? 0
LastId(us) == IF Len(us) = 0 THEN 0 ELSE us[Len(us)].id

\* The slip of taking the first record, slice(0, 1), for the last one.
NextIdOfFirst(us) == (IF Len(us) = 0 THEN 0 ELSE us[1].id) + 1

\* ((this.users.slice(-1)[0]?.id) ?? 0) + 1
NextId(us) == LastId(us) + 1

\* { ...user, id: ... }
NewUser(us, user) == Spread(user, [id |-> NextId(us)])

\* The slip of leaving the delete count out, users.splice(index), which
\* removes every record from index on.
SpliceToEnd(us, index) == SubSeq(us, 1, index - 1)

\* users.splice(index, 1)
Splice(us, index) == [i \in 1..(Len(us) - 1) |-> IF i < index THEN us[i] ELSE us[i + 1]]

\* What init() leaves in this.users for a given result of readFile.
InitLoad(f) == IF f.kind = "json" THEN Parse(f.text) ELSE Seed

MaxOf(S) == IF S = {} THEN 0 ELSE CHOOSE m \in S : \A n \in S : n <= m

IdsOf(us) == {us[i].id : i \in 1..Len(us)}

\* ---------------------------------------------------------- request bodies
ValidBody == [name |-> "Ana Silva", email |-> "ana@example.com", cpf |-> "52998224725", cep |-> "01001000"]
BadBody == [name |-> "Al", email |-> "bad", cpf |-> "000", cep |-> "123"]

\* JSON bodies a client sends: complete and partial, valid and invalid, with
\* and without keys the schemas do not declare.
PostBodies ==
  { ValidBody,
    Spread(ValidBody, [id |-> 1]),
    BadBody,
    [name |-> "Bia"] }

PutBodies ==
  { [name |-> "Bia"],
    [name |-> "Al"],
    BadBody }
  \cup {[id |-> k] : k \in Ids}

\* ------------------------------------------------------- writes in flight
Owners == Slots \cup {0}    \* 0 is init()

Pending(ws, o) == ws[o] # None

\* saveToFile(): JSON.stringify runs at the call, fs.writeFile completes
\* later.  Node gives no ordering between writeFile calls on one file that
\* overlap, and their chunks may interleave.
saveToFile(ws, owner, us) ==
  [o \in Owners |->
     IF o = owner
     THEN [data |-> Stringify(us), overlapped |-> \E p \in Owners \ {owner} : Pending(ws, p)]
     ELSE IF Pending(ws, o) THEN [ws[o] EXCEPT !.overlapped = TRUE] ELSE None]

\* Content of the file when the write of owner o completes.
WriteOutcomes(ws, o) ==
  {[kind |-> "json", text |-> ws[o].data]} \cup (IF ws[o].overlapped THEN {Corrupt} ELSE {})

Settle(ws, o) == [ws EXCEPT ![o] = None]

\* What fs.readFile can return: the file, or a torn read while a write is
\* in flight.
ReadOutcomes == {file} \cup (IF \E o \in Owners : Pending(writes, o) THEN {Corrupt} ELSE {})

Request(op, id) == [op |-> op, id |-> id]

\* ------------------------------------------------------------------- Init
Init ==
  /\ users = <<>>
  /\ file \in {Missing, Json(Seed)}
  /\ initPc = "reading"
  /\ writes = [o \in Owners |-> None]
  /\ pc = [h \in Slots |-> "ready"]
  /\ req = [h \in Slots |-> None]
  /\ local = [h \in Slots |-> None]
  /\ resp = None
  /\ nreq = [read |-> 0, write |-> 0, early |-> 0]
  /\ deleted = {}
  /\ hist = [init |-> 0, creates |-> 0, deletes |-> 0, merged |-> [h \in Slots |-> None]]
  /\ ev = [type |-> "start", slot |-> 0]

\* ----------------------------------------------------------------- init()
InitRead ==
  /\ initPc = "reading"
  /\ \E f \in ReadOutcomes :
       /\ users' = InitLoad(f)
       /\ IF f.kind = "json"
          THEN initPc' = "done" /\ writes' = writes
          ELSE initPc' = "saving" /\ writes' = saveToFile(writes, 0, users')
  /\ hist' = [hist EXCEPT !.init = Len(users'), !.creates = 0, !.deletes = 0]
  /\ ev' = [type |-> "initRead", slot |-> 0]
  /\ resp' = None
  /\ UNCHANGED <<file, pc, req, local, nreq, deleted>>

InitSaved ==
  /\ initPc = "saving"
  /\ \E f \in WriteOutcomes(writes, 0) : file' = f
  /\ writes' = Settle(writes, 0)
  /\ initPc' = "done"
  /\ ev' = [type |-> "initSaved", slot |-> 0]
  /\ resp' = None
  /\ UNCHANGED <<users, pc, req, local, nreq, deleted, hist>>

\* --------------------------------------------------------------- handlers
\* A request arrives and is given the first free slot.
Accept(h, kind) ==
  /\ pc[h] = "ready"
  /\ \A g \in Slots : g < h => pc[g] # "ready"
  /\ nreq[kind] < (IF kind = "write" THEN MaxWrites ELSE MaxReads)
  /\ nreq' = [nreq EXCEPT ![kind] = @ + 1,
                         !.early = IF initPc = "done" THEN @ ELSE @ + 1]

\* The handler answers without having waited for I/O.
Reply(h, rq, r) ==
  /\ resp' = [slot |-> h, req |-> rq, status |-> r.status, body |-> r.body]
  /\ UNCHANGED <<pc, req, local>>

\* The handler suspends at an await of I/O, keeping the local l.
Suspend(h, rq, what, l) ==
  /\ resp' = None
  /\ pc' = [pc EXCEPT ![h] = what]
  /\ req' = [req EXCEPT ![h] = rq]
  /\ local' = [local EXCEPT ![h] = l]

\* The suspended handler resumes and answers.
Finish(h, r) ==
  /\ resp' = [slot |-> h, req |-> req[h], status |-> r.status, body |-> r.body]
  /\ pc' = [pc EXCEPT ![h] = "ready"]
  /\ req' = [req EXCEPT ![h] = None]
  /\ local' = [local EXCEPT ![h] = None]

\* validateBody(schema) when schema.parse throws: next(new AppError(...)).
validateBody(h, op, id, body) ==
  /\ Schema(op, body) # {}
  /\ Accept(h, "read")
  /\ Reply(h, Request(op, id), errorMiddleware(AppError("Invalid request data", 400)))
  /\ ev' = [type |-> "reject", slot |-> h, failing |-> Schema(op, body)]
  /\ UNCHANGED <<users, file, initPc, writes, deleted, hist>>

GetUsers(h) ==
  /\ Accept(h, "read")
  /\ Reply(h, Request("getAll", 0), Ok(200, users))
  /\ ev' = [type |-> "getAll", slot |-> h]
  /\ UNCHANGED <<users, file, initPc, writes, deleted, hist>>

GetUser(h, id) ==
  /\ Accept(h, "read")
  /\ LET user == getById(users, id) IN
       Reply(h, Request("get", id), IF user = None THEN errorMiddleware(NotFound) ELSE Ok(200, user))
  /\ ev' = [type |-> "get", slot |-> h]
  /\ UNCHANGED <<users, file, initPc, writes, deleted, hist>>

IsCPF(h, id) ==
  /\ Accept(h, "read")
  /\ LET user == getById(users, id) IN
       Reply(h, Request("isCPF", id),
             IF user = None THEN errorMiddleware(NotFound)
             ELSE Ok(200, [message |-> IF isCPF(user.cpf) THEN "cpf valido" ELSE "cpf invalido"]))
  /\ ev' = [type |-> "isCPF", slot |-> h]
  /\ UNCHANGED <<users, file, initPc, writes, deleted, hist>>

IsCEP(h, id) ==
  /\ Accept(h, "read")
  /\ LET user == getById(users, id) IN
       IF user = None
       THEN Reply(h, Request("isCEP", id), errorMiddleware(NotFound))
       ELSE Suspend(h, Request("isCEP", id), "awaitCep", user)
  /\ ev' = [type |-> "isCEP", slot |-> h]
  /\ UNCHANGED <<users, file, initPc, writes, deleted, hist>>

\* cep(user.cep) settles: resolved with the address or rejected.
CepSettled(h) ==
  /\ pc[h] = "awaitCep"
  /\ \E found \in BOOLEAN :
       /\ Finish(h, IF found
                    THEN Ok(200, [message |-> "User's CEP is valid.", cep |-> local[h].cep, address |-> "address"])
                    ELSE errorMiddleware(CepError))
       /\ ev' = [type |-> IF found THEN "cepFound" ELSE "cepFailed", slot |-> h, cep |-> local[h].cep]
  /\ UNCHANGED <<users, file, initPc, writes, nreq, deleted, hist>>

\* POST /users: validateBody passes, userRepo.create(req.body) up to its
\* await of saveToFile.
PostUsers(h, body) ==
  /\ createUserSchema(body) = {}
  /\ Accept(h, "write")
  /\ LET newUser == NewUser(users, body) IN
       /\ users' = Append(users, newUser)
       /\ Suspend(h, Request("post", 0), "awaitSave", newUser)
       /\ ev' = [type |-> "create", slot |-> h, id |-> newUser.id,
                 lastBefore |-> LastId(users), maxBefore |-> MaxOf(IdsOf(users)),
                 lenBefore |-> Len(users)]
  /\ writes' = saveToFile(writes, h, users')
  /\ hist' = [hist EXCEPT !.creates = @ + 1]
  /\ UNCHANGED <<file, initPc, deleted>>

\* create resumes after saveToFile: res.status(201).json(newUser).
PostSaved(h) ==
  /\ pc[h] = "awaitSave" /\ req[h].op = "post"
  /\ \E f \in WriteOutcomes(writes, h) : file' = f
  /\ writes' = Settle(writes, h)
  /\ Finish(h, Ok(201, local[h]))
  /\ ev' = [type |-> "created", slot |-> h]
  /\ UNCHANGED <<users, initPc, nreq, deleted, hist>>

\* PUT /users/:id: validateBody passes, userRepo.update(id, req.body) up to
\* its return null or its await of saveToFile.
PutUsers(h, id, body) ==
  /\ updateUserSchema(body) = {}
  /\ Accept(h, "write")
  /\ LET index == findIndex(users, id) IN
       IF index = 0
       THEN /\ Reply(h, Request("put", id), errorMiddleware(NotFound))
            /\ ev' = [type |-> "updateMiss", slot |-> h]
            /\ UNCHANGED <<users, writes, hist>>
       ELSE /\ users' = [users EXCEPT ![index] = Spread(@, body)]
            /\ Suspend(h, Request("put", id), "awaitSave", index)
            /\ writes' = saveToFile(writes, h, users')
            /\ hist' = [hist EXCEPT !.merged[h] = users'[index]]
            /\ ev' = [type |-> "update", slot |-> h, index |-> index, body |-> body]
  /\ UNCHANGED <<file, initPc, deleted>>

\* update resumes after saveToFile: return this.users[index] ?? null.
PutSaved(h) ==
  /\ pc[h] = "awaitSave" /\ req[h].op = "put"
  /\ \E f \in WriteOutcomes(writes, h) : file' = f
  /\ writes' = Settle(writes, h)
  /\ Finish(h, IF local[h] <= Len(users) THEN Ok(200, users[local[h]])
               ELSE errorMiddleware(NotFound))
  /\ hist' = [hist EXCEPT !.merged[h] = None]
  /\ ev' = [type |-> "updated", slot |-> h]
  /\ UNCHANGED <<users, initPc, nreq, deleted>>

\* DELETE /users/:id: userRepo.delete(id) up to its return null or its await
\* of saveToFile.
DeleteUsers(h, id) ==
  /\ Accept(h, "write")
  /\ LET index == findIndex(users, id) IN
       IF index = 0
       THEN /\ Reply(h, Request("delete", id), errorMiddleware(NotFound))
            /\ ev' = [type |-> "deleteMiss", slot |-> h]
            /\ UNCHANGED <<users, writes, deleted, hist>>
       ELSE /\ users' = Splice(users, index)
            /\ Suspend(h, Request("delete", id), "awaitSave", users[index])
            /\ writes' = saveToFile(writes, h, users')
            /\ deleted' = deleted \cup {id}
            /\ hist' = [hist EXCEPT !.deletes = @ + 1]
            /\ ev' = [type |-> "delete", slot |-> h, id |-> id]
  /\ UNCHANGED <<file, initPc>>

\* delete resumes after saveToFile: res.json(deleted).
DeleteSaved(h) ==
  /\ pc[h] = "awaitSave" /\ req[h].op = "delete"
  /\ \E f \in WriteOutcomes(writes, h) : file' = f
  /\ writes' = Settle(writes, h)
  /\ Finish(h, Ok(200, local[h]))
  /\ ev' = [type |-> "deleted", slot |-> h]
  /\ UNCHANGED <<users, initPc, nreq, deleted, hist>>

Next ==
  \/ InitRead
  \/ InitSaved
  \/ \E h \in Slots : GetUsers(h)
  \/ \E h \in Slots, id \in Ids : GetUser(h, id)
  \/ \E h \in Slots, id \in Ids : IsCPF(h, id)
  \/ \E h \in Slots, id \in Ids : IsCEP(h, id)
  \/ \E h \in Slots : CepSettled(h)
  \/ \E h \in Slots, body \in PostBodies : validateBody(h, "post", 0, body)
  \/ \E h \in Slots, id \in Ids, body \in PutBodies : validateBody(h, "put", id, body)
  \/ \E h \in Slots, body \in PostBodies : PostUsers(h, body)
  \/ \E h \in Slots : PostSaved(h)
  \/ \E h \in Slots, id \in Ids, body \in PutBodies : PutUsers(h, id, body)
  \/ \E h \in Slots : PutSaved(h)
  \/ \E h \in Slots, id \in Ids : DeleteUsers(h, id)
  \/ \E h \in Slots : DeleteSaved(h)

Spec == Init /\ [][Next]_vars

TypeOK ==
  /\ initPc \in {"reading", "saving", "done"}
  /\ \A h \in Slots : pc[h] \in {"ready", "awaitSave", "awaitCep"}
  /\ nreq.read \in 0..MaxReads /\ nreq.write \in 0..MaxWrites

\* ================================================================= claims
Quiescent ==
  /\ initPc = "done"
  /\ \A h \in Slots : pc[h] = "ready"
  /\ \A o \in Owners : ~Pending(writes, o)

\* C1: in every reachable state no two records of the collection have the
\* same id.
C1_UniqueIds ==
  \A i, j \in 1..Len(users) : i # j => users[i].id # users[j].id

\* C2: every create returns a record whose id is the maximum id present just
\* before the call plus 1 (1 for an empty collection), and the collection
\* grows by exactly one record.
C2_CreateIdIsMaxPlusOne ==
  ev.type = "create" =>
    /\ ev.id = ev.maxBefore + 1
    /\ Len(users) = ev.lenBefore + 1

\* C3 as stated: once a record with id k has been deleted, no later create
\* returns a record with id k.
C3_NeverReused ==
  ev.type = "create" => ev.id \notin deleted

\* C3 as amended: a create returns the id of the record that is last in the
\* collection at the call plus 1 (1 for an empty collection), so the id k of
\* a deleted record comes back only when the last record then has id k - 1.
C3_ReusedOnlyAfterLast ==
  (ev.type = "create" /\ ev.id \in deleted) => ev.lastBefore = ev.id - 1

\* A create has just returned the id of a record deleted before it.
C3_Witness ==
  ev.type = "create" /\ ev.id \in deleted /\ Len(users) > 0 /\ users[Len(users)].id = ev.id

\* C4: update on an existing record changes only the fields the body
\* supplies: the record's id and every field the body does not name stay as
\* they were, and every other record is unchanged.
C4_UpdateFrame ==
  [][ev'.type = "update" =>
       LET i == ev'.index
           b == ev'.body
       IN /\ Len(users') = Len(users)
          /\ users'[i].id = users[i].id
          /\ DOMAIN users'[i] \subseteq DOMAIN users[i] \cup DOMAIN b
          /\ \A k \in DOMAIN users[i] \ DOMAIN b :
               k \in DOMAIN users'[i] /\ users'[i][k] = users[i][k]
          /\ \A j \in 1..Len(users) : j # i => users'[j] = users[j]]_vars

\* C5: init has completed before any route handler serves a request.
C5_InitBeforeServe ==
  (nreq.read > 0 \/ nreq.write > 0) => initPc = "done"

\* C6: once the create, update and delete requests received (all of them
\* after init was done) have completed, re-running init against the storage
\* file (when it holds whole JSON) yields the in-memory collection: same
\* records, same order, same field values.
C6_RoundTrip ==
  (Quiescent /\ nreq.write > 0 /\ nreq.early = 0 /\ file.kind = "json")
    => InitLoad(file) = users

\* C7: handlers are serialized: while a handler (started after init was
\* done) is between its start and its response, no other handler changes the
\* in-memory collection.
C7_Serialized ==
  [][\A h \in Slots :
       (nreq.early = 0 /\ pc[h] # "ready" /\ ev'.slot \in Slots \ {h}) => users' = users]_vars

\* C8: the postal-code check answers 404 when no record has the id, 200 with
\* the resolved address when the lookup succeeds, and 400 with the stored
\* postal code and the lookup error's message when the lookup fails; never
\* 500.
C8_PostalCodeCheck ==
  /\ (ev.type = "isCEP" /\ resp # None) => resp.status = 404
  /\ ev.type = "cepFound" =>
       resp.status = 200 /\ resp.body.cep = ev.cep /\ "address" \in DOMAIN resp.body
  /\ ev.type = "cepFailed" =>
       /\ resp.status = 400
       /\ "cep" \in DOMAIN resp.body /\ resp.body.cep = ev.cep
       /\ "error" \in DOMAIN resp.body /\ resp.body.error = CepError.message

\* C9: a POST or PUT whose body fails schema validation is answered 400 with
\* error messages for every failing field, and neither the collection nor
\* the storage file (nor a write to it) is touched.
C9_RejectedBody ==
  [][ev'.type = "reject" =>
       /\ resp'.status = 400
       /\ "errors" \in DOMAIN resp'.body
       /\ DOMAIN resp'.body.errors = ev'.failing
       /\ users' = users /\ file' = file /\ writes' = writes]_vars

\* C10: after the delete of an id that is in the collection, fetching that id
\* finds nothing (404); the delete of an id that is not in the collection
\* answers 404 and leaves the collection as it was.
C10_DeleteThenFetch ==
  [][/\ ev'.type = "delete" => getById(users', ev'.id) = None
     /\ ev'.type = "deleteMiss" => (resp'.status = 404 /\ users' = users)]_vars

\* C11 as stated: when the operations performed since startup (all of them
\* after init was done) are N creates and M deletes, getAll returns exactly
\* N - M records.
C11_GetAllNMinusM ==
  (ev.type = "getAll" /\ nreq.early = 0) =>
    Len(resp.body) = hist.creates - hist.deletes

\* C11 as amended: getAll returns the whole collection as it is in memory, in
\* its order; with K the number of records init put in the collection and N
\* creates and M deletes performed since init set it, that is exactly
\* K + N - M records.
C11_GetAllInitPlusNMinusM ==
  ev.type = "getAll" =>
    /\ resp.status = 200
    /\ resp.body = users
    /\ Len(resp.body) = hist.init + hist.creates - hist.deletes

\* getAll has just answered after init seeded three records and a create and
\* a delete were performed.
C11_Witness ==
  /\ ev.type = "getAll"
  /\ hist.init = 3 /\ hist.creates = 1 /\ hist.deletes = 1
  /\ Len(resp.body) = 3

\* C12: an update called while a record with its id is in the collection
\* answers with that record (same id), never with absent, also when other
\* requests run while it awaits its write.  Stated for the case that leaves
\* no doubt: ids are unique and the record is still there at the answer.
C12_UpdateReturnsItsRecord ==
  [][(/\ ev'.type = "updated"
      /\ hist.merged[ev'.slot].id = resp'.req.id
      /\ C1_UniqueIds
      /\ getById(users, resp'.req.id) # None) =>
       /\ resp'.status = 200
       /\ resp'.body.id = resp'.req.id]_vars

====
